---- MODULE Spec2Model ----
(***************************************************************************)
(* The voice-command screen (component Voice of app/_layout.tsx): the      *)
(* microphone capture handle, the press / release gestures, the pending    *)
(* asynchronous calls of startRecording, stopRecording and uploadAudio,    *)
(* and the display state they set.                                         *)
(*                                                                         *)
(* Scheduling: one cooperative event loop.  A handler runs without         *)
(* interruption up to its next await on a hardware or network call; the    *)
(* completion of that call resumes it, again up to the next such await.    *)
(* Each action below is one such run.  A handler reads the state values    *)
(* of the render that created it, so a pending call keeps the value of     *)
(* `recording` it was started with (field rec of its task).                *)
(***************************************************************************)
EXTENDS Naturals, Integers, Sequences, FiniteSets, TLC

\* ------------------------------------------------------------------ bounds
\* number of press gestures of one run (each starts at most one capture)
MaxPress == 2
\* presses made on the disabled button
MaxIgnored == 1

\* ------------------------------------------------------------- constants
\* `recording` state when no Audio.Recording object is referenced (null)
NoHandle == 0

Handles == 1..MaxPress

\* the fixed display strings of the component (ASCII only: the cross-mark
\* glyph that starts the three error texts is left out, and the em dash
\* shown for a missing transcription is written "-")
HoldMsg == "Hold the Button..."
AskMsg == "Ask about stock or sales"
ListeningMsg == "Listening..."
ProcessingMsg == "Processing..."
MicErrorMsg == "Mic Error. Try again."
NoResponseMsg == "No response"
NoTranscriptMsg == "-"
ConnectErrorMsg == "Could not connect to server."
ErrorPrefix == "Error: "
UnknownErrorMsg == "Unknown error"

\* ------------------------------------------------------- JSON body values
\* a field of the response body: absent, null, a number or a string
Undef == [t |-> "undef"]
JsNull == [t |-> "null"]
Num(n) == [t |-> "num", n |-> n]
Str(s) == [t |-> "str", s |-> s]

\* JavaScript truthiness, as used by `a && b` and `a || b` on body fields
Truthy(v) ==
  CASE v.t = "undef" -> FALSE
    [] v.t = "null" -> FALSE
    [] v.t = "num" -> v.n # 0
    [] v.t = "str" -> v.s # ""

\* bodies the intent-recognition endpoint can answer with
TranscriptionValues == {Undef, Str("add rice")}
ResponseValues == {Undef, Str("Added 5 kg Rice")}
IntentValues == {Undef, Str("ADD")}
ItemValues == {JsNull, Str("Rice")}
QtyValues == {Undef, Num(0), Num(5)}
UnitValues == {Undef, Str("kg")}
ErrorValues == {Undef, Str("boom")}

\* success bodies: every combination of the four intent fields under the
\* full texts, and every combination of the two texts with all four intent
\* fields (Scenario B) and with none (Scenario C)
IntentBodies ==
  [transcription : {Str("add rice")}, response : {Str("Added 5 kg Rice")},
   intent : IntentValues, item : ItemValues, qty : QtyValues,
   unit : UnitValues, error : {Undef}]

TextBodies ==
  [transcription : TranscriptionValues, response : ResponseValues,
   intent : {Str("ADD")}, item : {Str("Rice")}, qty : {Num(5)},
   unit : {Str("kg")}, error : {Undef}]
    \cup [transcription : TranscriptionValues, response : ResponseValues,
          intent : {Undef}, item : {JsNull}, qty : {Undef},
          unit : {Undef}, error : {Undef}]

SuccessBodies == IntentBodies \cup TextBodies

FailureBodies ==
  [transcription : {Undef}, response : {Undef}, intent : {Undef},
   item : {Undef}, qty : {Undef}, unit : {Undef}, error : ErrorValues]

NoBody ==
  [transcription |-> Undef, response |-> Undef, intent |-> Undef,
   item |-> Undef, qty |-> Undef, unit |-> Undef, error |-> Undef]

NoDecision == [set |-> FALSE]

\* ------------------------------------------------------------------ state
VARIABLES
  mounted,        \* the Voice screen is mounted
  permission,     \* "pending", "granted" or "denied"
  alertShown,     \* the "Permission missing" alert was raised
  permRequests,   \* calls of Audio.requestPermissionsAsync so far
  pressed,        \* the Hold-to-Speak button is down
  nPress,         \* accepted press gestures so far
  nIgnored,       \* presses made on the disabled button so far
  recording,      \* useState: referenced capture handle, or NoHandle
  isRecording,    \* useState
  isProcessing,   \* useState
  aiResponse,     \* useState
  transcription,  \* useState
  decision,       \* useState
  hw,             \* per handle: "none" (not created), "open", "closed"
  stopCalls,      \* per handle: stopAndUnloadAsync calls issued on it
  startT,         \* per press: the pending startRecording call
  stopT,          \* per press: the pending stopRecording call
  upT,            \* per press: the pending uploadAudio call
  lastReply       \* the reply handled by the latest completed upload

display == <<isRecording, isProcessing, aiResponse, transcription, decision>>
gesture == <<pressed, nPress, nIgnored>>
perm == <<permission, alertShown, permRequests>>
tasks == <<startT, stopT, upT>>
vars == <<mounted, perm, gesture, recording, display, hw, stopCalls, tasks,
          lastReply>>

IdleStart == [pc |-> "idle", rec |-> NoHandle]
IdleStop == [pc |-> "idle", rec |-> NoHandle]
IdleUpload == [pc |-> "idle", uri |-> NoHandle]
NoReply == [kind |-> "none", body |-> NoBody]

\* ---------------------------------------------------------------- helpers
\* (a setter that would still write after the unmount)
SetStateAlways(cur, new) == new

\* a useState setter: React drops the update once the component is unmounted
SetState(cur, new) == IF mounted THEN new ELSE cur

\* the mount effect with no dependency list: every render runs it again
EffectRerunsNoDeps(n) == n + 1

\* permission requests made so far, after one more render: the mount effect
\* has the dependency list [], so a later render does not run it again
EffectReruns(n) == n

\* a handler's state updates render the component again while it is mounted
Rerender ==
  permRequests' = IF mounted THEN EffectReruns(permRequests) ELSE permRequests

\* the `recording` value the unmount cleanup reads: the effect has no
\* dependencies, so its cleanup is the one created by the first render
MountRecording == NoHandle

\* issuing stopAndUnloadAsync on handle h
IssueStop(h) == [stopCalls EXCEPT ![h] = @ + 1]

Quote(s) == "\"" \o s \o "\""

\* ------------------------------------------------------------------- Init
Init ==
  /\ mounted = TRUE
  /\ permission = "pending"
  /\ alertShown = FALSE
  /\ permRequests = 1
  /\ pressed = FALSE
  /\ nPress = 0
  /\ nIgnored = 0
  /\ recording = NoHandle
  /\ isRecording = FALSE
  /\ isProcessing = FALSE
  /\ aiResponse = HoldMsg
  /\ transcription = AskMsg
  /\ decision = NoDecision
  /\ hw = [h \in Handles |-> "none"]
  /\ stopCalls = [h \in Handles |-> 0]
  /\ startT = [p \in Handles |-> IdleStart]
  /\ stopT = [p \in Handles |-> IdleStop]
  /\ upT = [p \in Handles |-> IdleUpload]
  /\ lastReply = NoReply

\* ---------------------------------------------------------- PermissionGate
\* the mount effect's requestPermissionsAsync resolves
PermissionResult ==
  /\ permission = "pending"
  /\ \E status \in {"granted", "denied"} :
       /\ permission' = status
       /\ alertShown' = (status # "granted")
  /\ UNCHANGED <<mounted, permRequests, gesture, recording, display, hw,
                 stopCalls, tasks, lastReply>>

\* ---------------------------------------------------------- startRecording
\* (a button that stays enabled, and a handler that goes on, while processing)
StartAllowedAlways(processing) == TRUE

\* a press starts startRecording unless isProcessing: the Pressable is
\* disabled then, and startRecording returns at once
StartAllowed(processing) == ~processing

\* onPressIn: startRecording up to the first await of cleanupAudio
PressIn ==
  /\ mounted /\ ~pressed /\ StartAllowed(isProcessing)
  /\ nPress < MaxPress
  /\ pressed' = TRUE
  /\ nPress' = nPress + 1
  /\ IF recording # NoHandle
       THEN /\ stopCalls' = IssueStop(recording)
            /\ startT' = [startT EXCEPT ![nPress + 1] =
                 [pc |-> "cleanup", rec |-> recording]]
       ELSE /\ stopCalls' = stopCalls
            /\ startT' = [startT EXCEPT ![nPress + 1] =
                 [pc |-> "audioMode", rec |-> NoHandle]]
  /\ UNCHANGED <<mounted, perm, nIgnored, recording, display, hw, stopT, upT,
                 lastReply>>

\* a press on the button while it is disabled: no handler runs
PressIgnored ==
  /\ mounted /\ ~pressed /\ ~StartAllowed(isProcessing)
  /\ nIgnored < MaxIgnored
  /\ nIgnored' = nIgnored + 1
  /\ UNCHANGED <<mounted, perm, pressed, nPress, recording, display, hw,
                 stopCalls, tasks, lastReply>>

\* the rest of startRecording once cleanupAudio has returned: the three
\* setters, then Audio.Recording.createAsync is issued
BeginCapture(p) ==
  /\ isRecording' = SetState(isRecording, TRUE)
  /\ aiResponse' = SetState(aiResponse, ListeningMsg)
  /\ decision' = SetState(decision, NoDecision)
  /\ startT' = [startT EXCEPT ![p] = [pc |-> "create", rec |-> NoHandle]]

\* cleanupAudio: recording.stopAndUnloadAsync() completes
CleanupStopDone(p) ==
  /\ startT[p].pc = "cleanup"
  /\ \E ok \in {TRUE, FALSE} :
       /\ ok => hw[startT[p].rec] = "open"
       /\ hw' = [hw EXCEPT ![startT[p].rec] = "closed"]
       /\ IF ok
            THEN /\ recording' = SetState(recording, NoHandle)
                 /\ startT' = [startT EXCEPT ![p] =
                      [pc |-> "audioMode", rec |-> NoHandle]]
                 /\ UNCHANGED display
            ELSE /\ recording' = recording
                 /\ BeginCapture(p)
                 /\ UNCHANGED <<isProcessing, transcription>>
  /\ Rerender
  /\ UNCHANGED <<mounted, permission, alertShown, gesture, stopCalls, stopT,
                 upT, lastReply>>

\* cleanupAudio: Audio.setAudioModeAsync completes (a failure is caught)
AudioModeDone(p) ==
  /\ startT[p].pc = "audioMode"
  /\ BeginCapture(p)
  /\ Rerender
  /\ UNCHANGED <<mounted, permission, alertShown, gesture, recording,
                 isProcessing,
                 transcription, hw, stopCalls, stopT, upT, lastReply>>

\* Audio.Recording.createAsync completes: a new open handle, or an error
CreateDone(p) ==
  /\ startT[p].pc = "create"
  /\ \E ok \in {TRUE, FALSE} :
       /\ ok => permission = "granted"
       /\ startT' = [startT EXCEPT ![p] =
            [pc |-> IF ok THEN "done" ELSE "failed", rec |-> NoHandle]]
       /\ IF ok
            THEN /\ hw' = [hw EXCEPT ![p] = "open"]
                 /\ recording' = SetState(recording, p)
                 /\ UNCHANGED display
            ELSE /\ isRecording' = SetState(isRecording, FALSE)
                 /\ aiResponse' = SetState(aiResponse, MicErrorMsg)
                 /\ UNCHANGED <<hw, recording, isProcessing, transcription,
                                decision>>
  /\ Rerender
  /\ UNCHANGED <<mounted, permission, alertShown, gesture, stopCalls, stopT,
                 upT, lastReply>>

\* ----------------------------------------------------------- stopRecording
\* onPressOut: stopRecording up to its await
PressOut ==
  /\ mounted /\ pressed
  /\ pressed' = FALSE
  /\ IF recording = NoHandle
       THEN UNCHANGED <<isRecording, stopCalls, stopT>>
       ELSE /\ isRecording' = SetState(isRecording, FALSE)
            /\ stopCalls' = IssueStop(recording)
            /\ stopT' = [stopT EXCEPT ![nPress] =
                 [pc |-> "stopping", rec |-> recording]]
  /\ Rerender
  /\ UNCHANGED <<mounted, permission, alertShown, nPress, nIgnored,
                 recording, isProcessing, aiResponse,
                 transcription, decision, hw, startT, upT, lastReply>>

\* uploadAudio(uri) up to the await of fetch; uri names the artifact by the
\* handle that recorded it, NoHandle is a null or empty uri
BeginUpload(p, uri) ==
  IF uri # NoHandle
    THEN /\ isProcessing' = SetState(isProcessing, TRUE)
         /\ aiResponse' = SetState(aiResponse, ProcessingMsg)
         /\ decision' = SetState(decision, NoDecision)
         /\ upT' = [upT EXCEPT ![p] = [pc |-> "fetch", uri |-> uri]]
    ELSE UNCHANGED <<isProcessing, aiResponse, decision, upT>>

\* (a stop handler that would upload even when the stop call threw)
StopUploadsAlways(ok) == TRUE

\* stopRecording's try block: getURI and uploadAudio run only when
\* stopAndUnloadAsync did not throw
StopUploads(ok) == ok

\* recording.stopAndUnloadAsync() of stopRecording completes; getURI gives
\* the artifact of the handle, or nothing ("empty")
StopDone(p) ==
  /\ stopT[p].pc = "stopping"
  /\ hw' = [hw EXCEPT ![stopT[p].rec] = "closed"]
  /\ recording' = SetState(recording, NoHandle)
  /\ \E ok \in {TRUE, FALSE}, uri \in {NoHandle, stopT[p].rec} :
       /\ ok => hw[stopT[p].rec] = "open"
       /\ stopT' = [stopT EXCEPT ![p] =
            [pc |-> IF ~ok THEN "failed"
                    ELSE IF uri = NoHandle THEN "empty" ELSE "done",
             rec |-> NoHandle]]
       /\ IF StopUploads(ok)
            THEN BeginUpload(p, uri)
            ELSE UNCHANGED <<isProcessing, aiResponse, decision, upT>>
  /\ Rerender
  /\ UNCHANGED <<mounted, permission, alertShown, gesture, isRecording,
                 transcription,
                 stopCalls, startT, lastReply>>

\* ------------------------------------------------------------- uploadAudio
\* (a decision test that would leave out the quantity)
BuildDecisionLoose(data) ==
  IF Truthy(data.intent) /\ Truthy(data.item) /\ Truthy(data.unit)
    THEN [set |-> TRUE, intent |-> data.intent, item |-> data.item,
          qty |-> data.qty, unit |-> data.unit]
    ELSE decision

\* the decision built from a success body, or none
BuildDecision(data) ==
  IF Truthy(data.intent) /\ Truthy(data.item) /\ Truthy(data.qty)
       /\ Truthy(data.unit)
    THEN [set |-> TRUE, intent |-> data.intent, item |-> data.item,
          qty |-> data.qty, unit |-> data.unit]
    ELSE decision

TranscriptionText(data) ==
  IF Truthy(data.transcription) THEN Quote(data.transcription.s)
  ELSE NoTranscriptMsg

ResponseText(data) ==
  IF Truthy(data.response) THEN data.response.s ELSE NoResponseMsg

ErrorText(data) ==
  ErrorPrefix \o (IF Truthy(data.error) THEN data.error.s ELSE UnknownErrorMsg)

\* replies of the network exchange: no response reachable, a body that is
\* not JSON (under HTTP success, under HTTP non-success), HTTP success with
\* a body, HTTP non-success with a body
Replies ==
  [kind : {"network", "okNotJson", "failNotJson"}, body : {NoBody}]
    \cup [kind : {"ok"}, body : SuccessBodies]
    \cup [kind : {"fail"}, body : FailureBodies]

\* an upload that writes the missing-transcription text in its error branches
TranscriptionAfterCleared(r) ==
  IF r.kind = "ok" THEN TranscriptionText(r.body) ELSE NoTranscriptMsg

\* the transcription after reply r has been handled: setTranscription is
\* called in the response.ok branch only
TranscriptionAfter(r) ==
  IF r.kind = "ok" THEN TranscriptionText(r.body) ELSE transcription

\* fetch and response.json() complete (or throw), then the finally block
UploadDone(p) ==
  /\ upT[p].pc = "fetch"
  /\ upT' = [upT EXCEPT ![p].pc = "done"]
  /\ \E r \in Replies :
       /\ lastReply' = r
       /\ transcription' = SetState(transcription, TranscriptionAfter(r))
       /\ CASE r.kind = "ok" ->
                 /\ aiResponse' = SetState(aiResponse, ResponseText(r.body))
                 /\ decision' = SetState(decision, BuildDecision(r.body))
            [] r.kind = "fail" ->
                 /\ aiResponse' = SetState(aiResponse, ErrorText(r.body))
                 /\ UNCHANGED decision
            [] OTHER ->
                 /\ aiResponse' = SetState(aiResponse, ConnectErrorMsg)
                 /\ UNCHANGED decision
  /\ isProcessing' = SetState(isProcessing, FALSE)
  /\ Rerender
  /\ UNCHANGED <<mounted, permission, alertShown, gesture, recording,
                 isRecording, hw,
                 stopCalls, startT, stopT>>

\* ----------------------------------------------------------------- unmount
\* the cleanup returned by the mount effect
Unmount ==
  /\ mounted
  /\ mounted' = FALSE
  /\ IF MountRecording # NoHandle
       THEN stopCalls' = IssueStop(MountRecording)
       ELSE stopCalls' = stopCalls
  /\ UNCHANGED <<perm, gesture, recording, display, hw, tasks, lastReply>>

\* ----------------------------------------------------------------- render
ThinkingMsg == "Thinking..."
WaitLabel == "Please Wait..."
ReleaseLabel == "Release to Send"
HoldLabel == "Hold to Speak"

\* reading a property of null throws a TypeError
TypeError == [t |-> "TypeError"]
FieldOf(d, f) == IF d.set THEN d[f] ELSE TypeError

\* the four lines of the decision card, read without the `decision &&` test
DecisionViewUnguarded(d) ==
  <<FieldOf(d, "intent"), FieldOf(d, "item"), FieldOf(d, "qty"),
    FieldOf(d, "unit")>>

\* `decision && (...)`: the four lines of the decision card, or nothing
DecisionView(d) ==
  IF d.set
    THEN <<FieldOf(d, "intent"), FieldOf(d, "item"), FieldOf(d, "qty"),
           FieldOf(d, "unit")>>
    ELSE <<>>

\* what the screen shows: a function of the component's state alone
View ==
  [status |-> IF isProcessing THEN ThinkingMsg ELSE aiResponse,
   transcription |-> transcription,
   card |-> DecisionView(decision),
   spinner |-> isProcessing,
   disabled |-> isProcessing,
   label |-> IF isProcessing THEN WaitLabel
             ELSE IF isRecording THEN ReleaseLabel ELSE HoldLabel]

\* ------------------------------------------------------------------- Next
Next ==
  \/ PermissionResult
  \/ PressIn
  \/ PressIgnored
  \/ PressOut
  \/ Unmount
  \/ \E p \in Handles : CleanupStopDone(p)
  \/ \E p \in Handles : AudioModeDone(p)
  \/ \E p \in Handles : CreateDone(p)
  \/ \E p \in Handles : StopDone(p)
  \/ \E p \in Handles : UploadDone(p)

Spec == Init /\ [][Next]_vars

\* ------------------------------------------------- state of the machine
Held == {h \in Handles : hw[h] = "open"}
StartPending(p) == startT[p].pc \in {"cleanup", "audioMode", "create"}
Finalizing == \E p \in Handles : stopT[p].pc = "stopping"
UploadsInFlight == {p \in Handles : upT[p].pc = "fetch"}
NoTaskPending ==
  \A p \in Handles :
    /\ ~StartPending(p)
    /\ stopT[p].pc # "stopping"
    /\ upT[p].pc # "fetch"

\* C1: while the screen is mounted a capture handle is held exactly when the
\* state machine is in Recording (isRecording) or Finalizing (a stop call is
\* in progress); in particular none is held in Idle.
C1_HeldIffRecordingOrFinalizing ==
  mounted => ((Held # {}) <=> (isRecording \/ Finalizing))

\* C2: every capture handle gets stopAndUnloadAsync exactly once: never
\* twice, and once nothing is pending after the unmount, never zero times.
C2_ReleasedExactlyOnce ==
  /\ \A h \in Handles : stopCalls[h] <= 1
  /\ (~mounted /\ NoTaskPending) =>
       \A h \in Handles : hw[h] # "none" => stopCalls[h] = 1

\* C3: once the screen is unmounted and its pending calls have completed,
\* no capture handle is held.
C3_TeardownLeavesNoHandle ==
  (~mounted /\ NoTaskPending) => Held = {}

\* C4: at most one upload is in flight at any time.
C4_OneUploadInFlight == Cardinality(UploadsInFlight) <= 1

\* C5: createAsync is never issued while another capture session is not
\* Idle: another handle held, another start pending, or a stop finalizing.
C5_OneSessionAtATime ==
  [][\A p \in Handles :
       (startT[p].pc # "create" /\ startT'[p].pc = "create") =>
         /\ Held = {}
         /\ \A q \in Handles \ {p} : ~StartPending(q)
         /\ ~Finalizing]_vars

\* a body field is present and not null
Present(v) == v.t \notin {"undef", "null"}

AllFourPresent(data) ==
  Present(data.intent) /\ Present(data.item) /\ Present(data.qty)
    /\ Present(data.unit)

\* C6: when an upload ends with HTTP success on a mounted screen, the
\* decision is set iff intent, item, qty and unit are all present and
\* non-null in the body.
C6_DecisionIffAllFour ==
  [][\A p \in Handles :
       (upT[p].pc = "fetch" /\ upT'[p].pc = "done" /\ mounted
          /\ lastReply'.kind = "ok") =>
         (decision'.set <=> AllFourPresent(lastReply'.body))]_vars

\* C7: once the screen is unmounted, no step (in particular no completion of
\* a pending upload) changes aiResponse, transcription, decision or
\* isProcessing.
C7_NoMutationAfterUnmount ==
  [][~mounted => UNCHANGED <<aiResponse, transcription, decision,
                             isProcessing>>]_vars

\* an upload was pending at the unmount and has completed since: nothing is
\* in flight, and isProcessing still has the value the upload gave it
C7_Witness ==
  /\ ~mounted
  /\ isProcessing
  /\ UploadsInFlight = {}
  /\ \E p \in Handles : upT[p].pc = "done"

\* C8: with the permission denied no handle is held and isRecording is
\* false, whatever was pressed.
C8_DeniedStaysIdle ==
  permission = "denied" => (Held = {} /\ ~isRecording)

\* the capture state machine is not Idle
NotIdle ==
  \/ isRecording
  \/ Finalizing
  \/ \E p \in Handles : StartPending(p)

\* C9: a press while the state machine is not Idle starts nothing: no
\* startRecording call is left pending, no release call is issued, no handle
\* and no display state changes.
C9_PressWhileBusyIsNoOp ==
  [][(nPress' # nPress /\ NotIdle) =>
       UNCHANGED <<startT, stopCalls, hw, isRecording, aiResponse,
                   decision>>]_vars

\* C10: when an upload begins, no capture handle is open.
C10_NoUploadWithOpenHandle ==
  [][\A p \in Handles :
       (upT[p].pc # "fetch" /\ upT'[p].pc = "fetch") => Held' = {}]_vars

\* C11: while an upload is pending (before and after the step), no capture
\* handle is acquired and isRecording does not become true.
C11_NoStartWhileUploading ==
  [][(UploadsInFlight # {} /\ UploadsInFlight' # {}) =>
       /\ Held' \subseteq Held
       /\ (isRecording' => isRecording)]_vars

\* the steps in which a call ends in an error
StartFails(p) == startT[p].pc = "create" /\ startT'[p].pc = "failed"
StopFails(p) == stopT[p].pc = "stopping" /\ stopT'[p].pc = "failed"
UploadEnds(p) == upT[p].pc = "fetch" /\ upT'[p].pc = "done"
Malformed(r) ==
  \/ r.kind = "okNotJson"
  \/ r.kind = "ok" /\ ~Truthy(r.body.response)
UploadFails(p) ==
  UploadEnds(p) /\ (lastReply'.kind # "ok" \/ Malformed(lastReply'))

\* the texts the component shows for an error
ErrorTexts ==
  {MicErrorMsg, ConnectErrorMsg, NoResponseMsg}
    \cup {ErrorText(b) : b \in FailureBodies}

\* C12: right after a Hardware, Network, Server or Malformed error on a
\* mounted screen the component is Idle (isRecording and isProcessing false,
\* no handle held or referenced) and shows a message for the error.
C12_ErrorResetsToIdle ==
  [][(mounted /\ \E p \in Handles :
        StartFails(p) \/ StopFails(p) \/ UploadFails(p)) =>
       /\ ~isRecording'
       /\ ~isProcessing'
       /\ Held' = {}
       /\ recording' = NoHandle
       /\ aiResponse' \in ErrorTexts]_vars

\* C13: an upload that ends with no response reachable shows the Network
\* message, leaves the component Idle with no decision, and that message is
\* shown for no Server or Malformed outcome.
C13_NetworkErrorDistinct ==
  [][\A p \in Handles :
       (mounted /\ UploadEnds(p)) =>
         /\ lastReply'.kind = "network" =>
              /\ aiResponse' = ConnectErrorMsg
              /\ ~isProcessing'
              /\ ~isRecording'
              /\ Held' = {}
              /\ ~decision'.set
         /\ (lastReply'.kind \in {"fail", "failNotJson"}
               \/ Malformed(lastReply')) =>
              aiResponse' # ConnectErrorMsg]_vars

\* an upload ends with HTTP success and a body that has its response field
WellFormedEnds(p) ==
  mounted /\ UploadEnds(p) /\ lastReply'.kind = "ok"
    /\ Truthy(lastReply'.body.response)

AllFourTruthy(data) ==
  Truthy(data.intent) /\ Truthy(data.item) /\ Truthy(data.qty)
    /\ Truthy(data.unit)

DecisionOf(data) ==
  [set |-> TRUE, intent |-> data.intent, item |-> data.item,
   qty |-> data.qty, unit |-> data.unit]

C15_MalformedFallsBack ==
  [][\A p \in Handles :
       (mounted /\ UploadEnds(p) /\ Malformed(lastReply')) =>
         /\ aiResponse' = NoResponseMsg
         /\ ~decision'.set]_vars

\* C16: an upload that ends with HTTP non-success shows the Server text,
\* built from the body's error message when it has one and from the generic
\* failure message otherwise, and leaves no decision.
C16_ServerErrorText ==
  [][\A p \in Handles :
       (mounted /\ UploadEnds(p)
          /\ lastReply'.kind \in {"fail", "failNotJson"}) =>
         /\ aiResponse' =
              ErrorPrefix \o (IF Truthy(lastReply'.body.error)
                                THEN lastReply'.body.error.s
                                ELSE UnknownErrorMsg)
         /\ ~decision'.set]_vars

\* C17: when the stop call of stopRecording fails on a mounted screen, the
\* handle is released, no upload is started, the display no longer shows
\* the listening message, and the component is Idle.
C17_StopFailureSurfaced ==
  [][\A p \in Handles :
       (mounted /\ StopFails(p)) =>
         /\ hw'[stopT[p].rec] = "closed"
         /\ upT' = upT
         /\ aiResponse' # ListeningMsg
         /\ ~isRecording'
         /\ recording' = NoHandle]_vars

\* the state machine is in Recording: capturing on the referenced open
\* handle, with no stop in progress
InRecording ==
  /\ isRecording
  /\ recording \in Held
  /\ ~Finalizing

\* C18: a release while the state machine is not in Recording changes
\* nothing: no hardware call is issued, no upload starts, no state changes.
C18_ReleaseOutsideRecordingIsSilent ==
  [][(mounted /\ pressed /\ ~pressed' /\ ~InRecording) =>
       UNCHANGED <<recording, display, hw, stopCalls, tasks>>]_vars

\* the uploads that have been started
Uploads == {p \in Handles : upT[p].pc # "idle"}

Idle == ~isRecording /\ ~isProcessing /\ Held = {}

\* C20: on a mounted screen with permission granted the component always
\* comes back to Idle once its pending operations have completed; so when
\* no operation is pending and the button is up, from where nothing more
\* happens without a new gesture, the component is Idle.
C20_QuiescentIsIdle ==
  (mounted /\ permission = "granted" /\ NoTaskPending /\ ~pressed) => Idle

\* ------------------------------------------------------------ permission
\* C21: microphone permission is requested exactly once per mount, at mount:
\* the one request of the mount effect is the only one in every reachable
\* state, whatever presses, releases, uploads and errors have happened, and
\* whatever its answer was (a denial is not followed by another request)
C21_PermissionRequestedOnce == permRequests = 1

\* permission was denied and the alert shown, both presses were made and
\* both start attempts ended in the Mic Error branch
C21_Witness ==
  /\ permission = "denied"
  /\ alertShown
  /\ nPress = MaxPress
  /\ \A p \in 1..MaxPress : startT[p].pc = "failed"
  /\ aiResponse = MicErrorMsg
  /\ permRequests = 1

\* ---------------------------------------------------------------- display
\* C22: presenting a result is a pure projection: in every reachable state,
\* with or without a decision, the display is computed from the state
\* without error (no line of the card reads a property of a null decision)
\* and the card is shown exactly when a decision is held
C22_PresentIsTotal ==
  /\ \A i \in DOMAIN View.card : View.card[i] # TypeError
  /\ (View.card # <<>>) <=> decision.set
  /\ View.status = IF isProcessing THEN ThinkingMsg ELSE aiResponse

\* an upload has ended with HTTP success and no decision: the response is
\* on screen and the card is not
C22_Witness ==
  /\ mounted
  /\ lastReply.kind = "ok"
  /\ ~Truthy(lastReply.body.intent)
  /\ decision = NoDecision
  /\ ~isProcessing
  /\ View.status = ResponseText(lastReply.body)
  /\ View.card = <<>>

\* --------------------------------------------------- release before create
\* press p was released before its capture existed: the release found no
\* handle and started no stop, and the capture was created afterwards
ReleasedEarly(p) ==
  /\ p = nPress
  /\ ~pressed
  /\ stopT[p].pc = "idle"
  /\ startT[p].pc = "done"

\* C23: a release that fires while startRecording still awaits the capture
\* does not strand the capture: once every pending operation has completed
\* (so that only a user gesture can change anything), the handle of that
\* press has been released and isRecording is false
C23_EarlyReleaseNotStranded ==
  \A p \in Handles :
    (mounted /\ ReleasedEarly(p) /\ NoTaskPending)
      => (hw[p] # "open" /\ ~isRecording)

\* ------------------------------------------------------- display coherence
\* C24: isProcessing is true at every instant at which an upload's network
\* exchange is in flight on the mounted screen; it is not cleared while an
\* upload is still pending
C24_ProcessingWhileInFlight ==
  (mounted /\ UploadsInFlight # {}) => isProcessing

\* C25: isRecording and isProcessing are never both true
C25_NotRecordingAndProcessing == ~(isRecording /\ isProcessing)

\* C26: whenever a decision is displayed, it and the displayed response text
\* come from one server reply, the last one handled: that reply had HTTP
\* success, carried the four fields of the decision, and its response text
\* is the aiResponse on screen (not an error, listening or processing text,
\* nor the text of another upload)
C26_DecisionMatchesResponse ==
  (mounted /\ decision.set) =>
    /\ lastReply.kind = "ok"
    /\ AllFourTruthy(lastReply.body)
    /\ decision = DecisionOf(lastReply.body)
    /\ aiResponse = ResponseText(lastReply.body)

\* C27: decision is null at every instant at which isRecording or
\* isProcessing is true
C27_NoDecisionWhileBusy ==
  (isRecording \/ isProcessing) => decision = NoDecision

\* ------------------------------------------------------------ failed upload
\* the replies handled by the HTTP non-success branch or, fetch or the
\* parsing of a non-success body having thrown, by the catch
FailedReplyKinds == {"fail", "failNotJson", "network"}

\* C28: an upload that ends in HTTP non-success or in a network failure
\* leaves transcription unchanged: of the display it changes only aiResponse
\* and isProcessing (decision, isRecording and the handle keep their values)
C28_FailedUploadKeepsTranscription ==
  [][\A p \in Handles :
       (UploadEnds(p) /\ lastReply'.kind \in FailedReplyKinds) =>
         UNCHANGED <<transcription, decision, isRecording, recording>>]_vars

\* a first upload has shown its transcription and a later upload has failed:
\* the error text is on screen over the earlier transcription
C28_Witness ==
  /\ mounted
  /\ \A p \in 1..MaxPress : upT[p].pc = "done"
  /\ lastReply.kind \in FailedReplyKinds
  /\ transcription = Quote("add rice")
  /\ aiResponse \in {ConnectErrorMsg, ErrorText(lastReply.body)}
  /\ ~isProcessing

\* ------------------------------------------------------------ empty capture
\* the step in which a stop succeeds and getURI yields no artifact reference
StopYieldsNoUri(p) == stopT[p].pc = "stopping" /\ stopT'[p].pc = "empty"

\* C29: when a successful stop yields no artifact reference, uploadAudio is
\* a no-op: no upload begins, isProcessing, aiResponse, transcription and
\* decision are unchanged, and the component is Idle afterwards (isRecording
\* false, no handle held)
C29_EmptyCaptureIsNoOp ==
  [][\A p \in Handles :
       (mounted /\ StopYieldsNoUri(p)) =>
         /\ UNCHANGED <<upT, isProcessing, aiResponse, transcription,
                        decision>>
         /\ ~isRecording'
         /\ Held' = {}]_vars

\* ------------------------------------------------------ press while busy
\* a press gesture is made on the button, accepted or not
PressMade == nPress' # nPress \/ nIgnored' # nIgnored

\* C30: a press issued while isProcessing is true changes nothing: no
\* startRecording call is left pending, no release call is issued, no
\* capture is created, and the handle, isRecording, isProcessing, aiResponse,
\* transcription and decision keep their values
C30_PressWhileProcessingIsNoOp ==
  [][(mounted /\ isProcessing /\ PressMade) =>
       UNCHANGED <<pressed, recording, display, hw, stopCalls, tasks>>]_vars

\* the button was pressed during an upload, which is still pending: the
\* Thinking text is on screen and no second capture has been started
C30_Witness ==
  /\ mounted
  /\ nIgnored > 0
  /\ isProcessing
  /\ UploadsInFlight # {}
  /\ ~isRecording
  /\ \A p \in Handles : ~StartPending(p)
  /\ View.status = ThinkingMsg
====
